---- MODULE Spec2Model ----
(***************************************************************************)
(* A model of the winnow-json parser (src/src/main.rs).                    *)
(*                                                                         *)
(* The input is a Rust &str: a sequence of Unicode scalar values, here a   *)
(* sequence of code points.  Every production is an operator P(s, i) that  *)
(* parses s from the cursor i (the number of characters already consumed)  *)
(* and yields a record [k, p, v]:                                          *)
(*   k = "Ok"        the production matched, v is its output and p the     *)
(*                   cursor after it;                                      *)
(*   k = "Backtrack" ErrMode::Backtrack, the recoverable failure; p is the *)
(*                   cursor as the failing parser left it;                 *)
(*   k = "Cut"       ErrMode::Cut, the fatal failure;                      *)
(*   k = "Panic"     the thread panicked (an arithmetic overflow or a      *)
(*                   failed debug assertion in the dev profile).           *)
(* The combinators of the winnow crate (alt, cut_err, preceded,            *)
(* terminated, delimited, repeat, separated, separated_pair, verify,       *)
(* verify_map, take, float) are modelled at the places main.rs uses them.  *)
(***************************************************************************)
EXTENDS Integers, Sequences, FiniteSets, TLC

\* shape:   how the input text was composed (an auxiliary variable: the
\*          parser never reads it, the properties name their cases by it)
\* input:   the text handed to a production
\* op:      the production that was called on it ("idle" before the call)
\* out:     what the call returned
\* profile: the build profile, "dev" (overflow checks and debug assertions
\*          on) or "release" (off: arithmetic wraps)
VARIABLES shape, input, op, out, profile

vars == <<shape, input, op, out, profile>>

(***************************************************************************)
(* Characters.                                                             *)
(***************************************************************************)
\* The printable ASCII characters, U+0020 .. U+007E, in code point order (the
\* grave accent cannot be written in a string and is named instead).
ASCII ==
  << " ", "!", "\"", "#", "$", "%", "&", "'", "(", ")", "*", "+", ",", "-",
     ".", "/", "0", "1", "2", "3", "4", "5", "6", "7", "8", "9", ":", ";",
     "<", "=", ">", "?", "@", "A", "B", "C", "D", "E", "F", "G", "H", "I",
     "J", "K", "L", "M", "N", "O", "P", "Q", "R", "S", "T", "U", "V", "W",
     "X", "Y", "Z", "[", "\\", "]", "^", "_", "U+0060", "a", "b", "c", "d", "e",
     "f", "g", "h", "i", "j", "k", "l", "m", "n", "o", "p", "q", "r", "s",
     "t", "u", "v", "w", "x", "y", "z", "{", "|", "}", "~" >>

\* The code point of a character literal of the source.
Ord(c) ==
  CASE c = "\t" -> 9
    [] c = "\n" -> 10
    [] c = "\r" -> 13
    [] OTHER -> 31 + (CHOOSE n \in 1..Len(ASCII) : ASCII[n] = c)

\* A string literal of the source, given as the tuple of its characters.
Str(t) == [n \in 1..Len(t) |-> Ord(t[n])]

QUOTE == Ord("\"")
BACKSLASH == Ord("\\")

\* const WS: &[char] = &[' ', '\t', '\r', '\n'];
WS == {Ord(" "), Ord("\t"), Ord("\r"), Ord("\n")}

DIGITS == Ord("0")..Ord("9")

\* The token at the cursor; -1 at the end of the input.
Peek(s, i) == IF i < Len(s) THEN s[i + 1] ELSE -1

(***************************************************************************)
(* Results (PResult) and the JsonValue variants.                           *)
(***************************************************************************)
Ok(v, p) == [k |-> "Ok", p |-> p, v |-> v]
Backtrack(p) == [k |-> "Backtrack", p |-> p, v |-> <<>>]
Cut(p) == [k |-> "Cut", p |-> p, v |-> <<>>]
Panic(p) == [k |-> "Panic", p |-> p, v |-> <<>>]

JNull == [t |-> "Null", v |-> <<>>]
JBoolean(b) == [t |-> "Boolean", v |-> b]
JNumber(n) == [t |-> "Number", v |-> n]
JString(str) == [t |-> "String", v |-> str]
JArray(a) == [t |-> "Array", v |-> a]
JObject(m) == [t |-> "Object", v |-> m]

\* Parser::value: the output of a successful parse is replaced, an error
\* passes unchanged.
MapOk(r, v) == IF r.k = "Ok" THEN Ok(v, r.p) ELSE r

\* Parser::map: the output of a successful parse is rewritten by F.
MapWith(r, F(_)) == IF r.k = "Ok" THEN Ok(F(r.v), r.p) ELSE r

\* One parser after another (the tuples, preceded, terminated, delimited,
\* separated_pair): the parsers that follow r run, as K, only when r matched;
\* any error of r is returned as it is.
Then(r, K(_)) == IF r.k # "Ok" THEN r ELSE K(r)

\* One step of alt: the next alternative runs, as K, only after a recoverable
\* failure of r; a match and every other error are returned as they are.
OrElse(r, K(_)) == IF r.k # "Backtrack" THEN r ELSE K(r)

\* A reset that leaves the cursor where the failed parser left it.
Reset_missing(start, cur) == cur

\* Stream::reset(&checkpoint): the cursor goes back to the checkpoint, wherever
\* the failed parser left it.
Reset(start, cur) == start

\* cut_err left out: the failure stays as it is.
cut_err_missing(r) == r

\* cut_err: a recoverable failure becomes fatal; everything else passes.
cut_err(r) == IF r.k = "Backtrack" THEN Cut(r.p) ELSE r

\* ErrMode::assert: a panic where debug assertions are on, a fatal error where
\* they are off.
assert_failed(p) == IF profile = "dev" THEN Panic(p) ELSE Cut(p)

\* A literal used as a parser ("null", '[', "\\u"): the cursor moves only on
\* a match.
literal(lit, s, i) ==
  IF i + Len(lit) <= Len(s) /\ SubSeq(s, i + 1, i + Len(lit)) = lit
  THEN Ok(lit, i + Len(lit))
  ELSE Backtrack(i)

(***************************************************************************)
(* ws, null, boolean.                                                      *)
(***************************************************************************)
RECURSIVE take_while_ws(_, _)
take_while_ws(s, i) ==
  IF Peek(s, i) \in WS THEN take_while_ws(s, i + 1) ELSE i

RECURSIVE take_while_space(_, _)
take_while_space(s, i) ==
  IF Peek(s, i) = Ord(" ") THEN take_while_space(s, i + 1) ELSE i

\* The slice from the cursor i to the cursor e, as the output of a parser.
Slice(s, i, e) == Ok(SubSeq(s, i + 1, e), e)

\* ws that knows the space only.
ws_space_only(s, i) == Slice(s, i, take_while_space(s, i))

\* take_while(0.., WS): never fails; its output is the slice it skipped.
ws(s, i) == Slice(s, i, take_while_ws(s, i))

NULL_LIT == Str(<<"n", "u", "l", "l">>)
TRUE_LIT == Str(<<"t", "r", "u", "e">>)
FALSE_LIT == Str(<<"f", "a", "l", "s", "e">>)

null(s, i) == literal(NULL_LIT, s, i)

\* alt((parse_true, parse_false))
boolean(s, i) ==
  OrElse(MapOk(literal(TRUE_LIT, s, i), TRUE),
         LAMBDA parse_true :
           MapOk(literal(FALSE_LIT, s, Reset(i, parse_true.p)), FALSE))

(***************************************************************************)
(* String literals: u16_hex, unicode_escape, character, string.            *)
(***************************************************************************)
\* char::to_digit(16): the value of a hexadecimal digit, -1 for any other
\* character.
HexVal(c) ==
  IF c \in Ord("0")..Ord("9") THEN c - Ord("0")
  ELSE IF c \in Ord("a")..Ord("f") THEN c - Ord("a") + 10
  ELSE IF c \in Ord("A")..Ord("F") THEN c - Ord("A") + 10
  ELSE -1

RECURSIVE HexDigits(_, _)
\* The digits of from_str_radix, most significant first, onto the
\* accumulator acc; -1 on a character that is no digit and on a value above
\* u16::MAX.
HexDigits(digits, acc) ==
  IF digits = <<>> THEN acc
  ELSE IF HexVal(Head(digits)) = -1 THEN -1
  ELSE IF acc * 16 + HexVal(Head(digits)) >= 2 ^ 16 THEN -1
  ELSE HexDigits(Tail(digits), acc * 16 + HexVal(Head(digits)))

\* u16::from_str_radix(src, 16).ok(): -1 stands for None.  The standard
\* library strips one leading '+' before the digits; for an unsigned type a
\* '-' is no sign and is read as a digit.
from_str_radix(src) ==
  IF src = <<>> THEN -1
  ELSE IF Len(src) = 1 /\ Head(src) \in {Ord("+"), Ord("-")} THEN -1
  ELSE IF Head(src) = Ord("+") THEN HexDigits(Tail(src), 0)
  ELSE HexDigits(src, 0)

\* verify_map on the slice of take(4usize): n is the Option, -1 for None; on
\* None the cursor goes back before the slice.
verify_map_u16(n, i) ==
  IF n = -1 THEN Backtrack(Reset(i, i + 4)) ELSE Ok(n, i + 4)

\* take(4usize).verify_map(|s| u16::from_str_radix(s, 16).ok())
u16_hex(s, i) ==
  IF Len(s) - i < 4 THEN Backtrack(i)
  ELSE verify_map_u16(from_str_radix(SubSeq(s, i + 1, i + 4)), i)

\* A u32 is kept as its two 16-bit halves <<high, low>>, so that its
\* arithmetic keeps its width; PANICKED stands for a computation that
\* panicked.
U32(n) == <<n \div 2 ^ 16, n % 2 ^ 16>>
PANICKED == <<-1, -1>>

\* a - b in u32: a panic with overflow checks, wrapped without.
Sub32(a, b) ==
  IF a = PANICKED \/ b = PANICKED THEN PANICKED
  ELSE IF a[2] >= b[2] /\ a[1] >= b[1] THEN <<a[1] - b[1], a[2] - b[2]>>
  ELSE IF a[2] < b[2] /\ a[1] > b[1]
       THEN <<a[1] - b[1] - 1, a[2] - b[2] + 2 ^ 16>>
  ELSE IF profile = "dev" THEN PANICKED
  ELSE IF a[2] >= b[2] THEN <<a[1] - b[1] + 2 ^ 16, a[2] - b[2]>>
  ELSE <<a[1] - b[1] - 1 + 2 ^ 16, a[2] - b[2] + 2 ^ 16>>

\* a + b in u32.
Add32(a, b) ==
  IF a = PANICKED \/ b = PANICKED THEN PANICKED
  ELSE IF a[1] + b[1] + (a[2] + b[2]) \div 2 ^ 16 < 2 ^ 16
       THEN <<a[1] + b[1] + (a[2] + b[2]) \div 2 ^ 16, (a[2] + b[2]) % 2 ^ 16>>
  ELSE IF profile = "dev" THEN PANICKED
  ELSE <<(a[1] + b[1] + (a[2] + b[2]) \div 2 ^ 16) % 2 ^ 16,
         (a[2] + b[2]) % 2 ^ 16>>

\* a << 10 in u32: the bits shifted out are dropped in either profile.
Shl10(a) ==
  IF a = PANICKED THEN PANICKED
  ELSE <<(a[1] * 2 ^ 10 + (a[2] * 2 ^ 10) \div 2 ^ 16) % 2 ^ 16,
         (a[2] * 2 ^ 10) % 2 ^ 16>>

\* The map closure with the bases of the two units exchanged.
combine_bases_exchanged(h, l) ==
  Add32(Add32(Shl10(Sub32(U32(h), U32(\hDC00))),
              Sub32(U32(l), U32(\hD800))),
        U32(\h10000))

\* The map closure of the second alternative of unicode_escape:
\* high_ten = h - 0xD800, low_ten = l - 0xDC00,
\* (high_ten << 10) + low_ten + 0x10000.
combine(h, l) ==
  Add32(Add32(Shl10(Sub32(U32(h), U32(\hD800))),
              Sub32(U32(l), U32(\hDC00))),
        U32(\h10000))

\* std::char::from_u32: the character of a Unicode scalar value, -1 (None)
\* for a surrogate and for a value above 0x10FFFF.
from_u32(cp) ==
  IF cp[1] > \h10 THEN -1
  ELSE IF cp[1] = 0 /\ cp[2] >= \hD800 /\ cp[2] <= \hDFFF THEN -1
  ELSE cp[1] * 2 ^ 16 + cp[2]

\* The verify closure of the first alternative: !(0xD800..0xE000).contains(cp)
not_surrogate(cp) == ~(cp >= \hD800 /\ cp < \hE000)

\* A verify closure for the second alternative that checks the high unit
\* only.
is_pair_high_only(h, l) == h >= \hD800 /\ h < \hDC00

\* The verify closure of the second alternative.
is_pair(h, l) ==
  /\ h >= \hD800 /\ h < \hDC00
  /\ l >= \hDC00 /\ l < \hE000

U_ESCAPE == Str(<<"\\", "u">>)

\* alt of unicode_escape, first: u16_hex.verify(..).map(|cp| cp as u32)
single_unit(s, i) ==
  Then(u16_hex(s, i),
       LAMBDA cp :
         IF not_surrogate(cp.v) THEN Ok(U32(cp.v), cp.p)
         ELSE Backtrack(Reset(i, cp.p)))

\* The map of the second alternative, with the panic of its arithmetic.
map_pair(cp, p) == IF cp = PANICKED THEN Panic(p) ELSE Ok(cp, p)

\* alt of unicode_escape, second:
\* separated_pair(u16_hex, "\\u", u16_hex).verify(..).map(..)
surrogate_pair(s, i) ==
  Then(u16_hex(s, i),
       LAMBDA h :
         Then(literal(U_ESCAPE, s, h.p),
              LAMBDA sep :
                Then(u16_hex(s, sep.p),
                     LAMBDA l :
                       IF is_pair(h.v, l.v)
                       THEN map_pair(combine(h.v, l.v), l.p)
                       ELSE Backtrack(Reset(i, l.p)))))

\* verify_map(std::char::from_u32) on the output r of the alt; c is the
\* Option, -1 for None.
verify_map_char(c, r, i) ==
  IF c # -1 THEN Ok(c, r.p) ELSE Backtrack(Reset(i, r.p))

unicode_escape(s, i) ==
  Then(OrElse(single_unit(s, i),
              LAMBDA first : surrogate_pair(s, Reset(i, first.p))),
       LAMBDA r : verify_map_char(from_u32(r.v), r, i))

\* The match of the first alternative of character: -1 stands for None.
short_escape(c) ==
  CASE c \in {QUOTE, BACKSLASH, Ord("/")} -> c
    [] c = Ord("b") -> 8
    [] c = Ord("f") -> 12
    [] c = Ord("n") -> Ord("\n")
    [] c = Ord("r") -> Ord("\r")
    [] c = Ord("t") -> Ord("\t")
    [] OTHER -> -1

\* any.verify_map(..) at the cursor j: esc is the Option, -1 for None and at
\* the end of the input.
verify_map_escape(esc, j) ==
  IF esc = -1 THEN Backtrack(Reset(j, j + 1)) ELSE Ok(esc, j + 1)

\* The alt of character, at the cursor j after the backslash.
escape(s, j) ==
  OrElse(verify_map_escape(IF Peek(s, j) = -1 THEN -1
                           ELSE short_escape(Peek(s, j)), j),
         LAMBDA first :
           Then(literal(<<Ord("u")>>, s, Reset(j, first.p)),
                LAMBDA u : unicode_escape(s, u.p)))

character(s, i) ==
  IF Peek(s, i) \in {-1, QUOTE} THEN Backtrack(i)
  ELSE IF Peek(s, i) # BACKSLASH THEN Ok(Peek(s, i), i + 1)
  ELSE escape(s, i + 1)

RECURSIVE repeat_character(_, _, _)
\* One turn of the loop of repeat: r is what character returned from the
\* cursor i.  The loop ends at the first recoverable failure, with the cursor
\* back where that attempt started.
repeat_step(r, s, i, acc) ==
  IF r.k = "Ok"
  THEN IF r.p = i THEN assert_failed(i)
       ELSE repeat_character(s, r.p, Append(acc, r.v))
  ELSE IF r.k = "Backtrack" THEN Ok(acc, Reset(i, r.p))
  ELSE r

\* repeat(0.., character).fold(String::new, |mut string, c| ..push(c)..)
repeat_character(s, i, acc) == repeat_step(character(s, i), s, i, acc)

\* terminated(repeat(..).fold(..), '"')
string_body(s, i) ==
  Then(repeat_character(s, i, <<>>),
       LAMBDA body :
         Then(literal(<<QUOTE>>, s, body.p),
              LAMBDA close : Ok(body.v, close.p)))

\* preceded('"', cut_err(..)).context("string")
string(s, i) ==
  Then(literal(<<QUOTE>>, s, i),
       LAMBDA open : cut_err(string_body(s, open.p)))

(***************************************************************************)
(* Numbers: winnow::ascii::float, the fourth alternative of json_value.    *)
(* It recognises a float lexeme (or one of the spellings of NaN and of     *)
(* the infinities) and hands the slice to f64::from_str.                   *)
(***************************************************************************)
RECURSIVE digit0(_, _)
\* The cursor after the longest run of ASCII digits from i.
digit0(s, i) == IF Peek(s, i) \in DIGITS THEN digit0(s, i + 1) ELSE i

SIGNS == {Ord("+"), Ord("-")}

\* opt(one_of(['+', '-'])): the cursor after the optional sign.
opt_sign(s, i) == IF Peek(s, i) \in SIGNS THEN i + 1 ELSE i

\* The parts of a recognised lexeme: its sign, the cursors that bound the
\* integer digits [a, d), the fraction digits [f, g) and the exponent digits
\* [x, y), and the sign of the exponent.
Parts(s, i, a, d, f, g, x, y) ==
  [neg |-> (a > i /\ Peek(s, i) = Ord("-")), a |-> a, d |-> d, f |-> f,
   g |-> g, eneg |-> (x > g + 1 /\ Peek(s, g + 1) = Ord("-")), x |-> x,
   y |-> y]

\* cut_err(digit1) of the exponent: x is the cursor after 'e' and the optional
\* sign, y the cursor after the digits.
exponent_digits(s, i, a, d, f, g, x, y) ==
  IF y = x THEN Cut(x) ELSE Ok(Parts(s, i, a, d, f, g, x, y), y)

\* opt((one_of(['e', 'E']), opt(sign), cut_err(digit1))), after the mantissa
\* that ends at the cursor g.
exponent_sign(s, i, a, d, f, g, x) ==
  exponent_digits(s, i, a, d, f, g, x, digit0(s, x))

exponent(s, i, a, d, f, g) ==
  IF Peek(s, g) \in {Ord("e"), Ord("E")}
  THEN exponent_sign(s, i, a, d, f, g, opt_sign(s, g + 1))
  ELSE Ok(Parts(s, i, a, d, f, g, g, g), g)

\* ('.', digit1), the second alternative of the mantissa: g is the cursor
\* after the digits that follow the '.' at a.
point_first(s, i, a, g) ==
  IF Peek(s, a) # Ord(".") THEN Backtrack(a)
  ELSE IF g = a + 1 THEN Backtrack(g)
  ELSE exponent(s, i, a, a, a + 1, g)

\* opt(('.', opt(digit1))) after the integer digits [a, d).
fraction(s, i, a, d) ==
  IF Peek(s, d) = Ord(".")
  THEN exponent(s, i, a, d, d + 1, digit0(s, d + 1))
  ELSE exponent(s, i, a, d, d, d)

\* alt(((digit1, opt(('.', opt(digit1)))), ('.', digit1))), after the sign; d
\* is the cursor after the digits from a.
mantissa(s, i, a, d) ==
  IF d > a THEN fraction(s, i, a, d)
  ELSE point_first(s, i, a, digit0(s, a + 1))

after_sign(s, i, a) == mantissa(s, i, a, digit0(s, a))

\* (opt(sign), alt(((digit1, opt(('.', opt(digit1)))), ('.', digit1))),
\*  opt((one_of(['e', 'E']), opt(sign), cut_err(digit1)))).recognize()
recognize_float(s, i) == after_sign(s, i, opt_sign(s, i))

\* char::to_ascii_lowercase, for the case-insensitive literals.
Lower(c) == IF c \in Ord("A")..Ord("Z") THEN c + 32 ELSE c

\* A case-insensitive literal.
literal_no_case(lit, s, i) ==
  IF /\ i + Len(lit) <= Len(s)
     /\ \A n \in 1..Len(lit) : Lower(s[i + n]) = lit[n]
  THEN Ok(lit, i + Len(lit))
  ELSE Backtrack(i)

NAN_LIT == Str(<<"n", "a", "n">>)
INFINITY_LIT == Str(<<"i", "n", "f", "i", "n", "i", "t", "y">>)
INF_LIT == Str(<<"i", "n", "f">>)

RECURSIVE DecVal(_, _, _, _)
\* The number the decimal digits s[from+1 .. to] denote, onto acc.
DecVal(s, from, to, acc) ==
  IF from >= to THEN acc
  ELSE DecVal(s, from + 1, to, acc * 10 + (s[from + 1] - Ord("0")))

RECURSIVE Normal(_, _)
\* mant * 10^exp with the trailing zeros of mant moved into exp.
Normal(mant, exp) ==
  IF mant = 0 THEN <<0, 0>>
  ELSE IF mant % 10 = 0 THEN Normal(mant \div 10, exp + 1)
  ELSE <<mant, exp>>

\* f64::from_str of a recognised lexeme: the double nearest to
\* (-1)^neg * mant * 10^exp, named by that number in normal form (two
\* lexemes of the same number yield the same double, and within the lengths
\* modelled two different numbers yield different doubles).
\* The double named by the sign neg and the normal form n = <<mant, exp>>.
Finite(neg, n) ==
  [class |-> "finite", neg |-> neg, mant |-> n[1], exp |-> n[2]]

\* The exponent of the lexeme, with its sign.
Exponent(s, parts) ==
  IF parts.eneg THEN 0 - DecVal(s, parts.x, parts.y, 0)
  ELSE DecVal(s, parts.x, parts.y, 0)

FiniteF64(s, parts) ==
  Finite(parts.neg,
         Normal(DecVal(s, parts.f, parts.g, DecVal(s, parts.a, parts.d, 0)),
                Exponent(s, parts) - (parts.g - parts.f)))

SpecialF64(class, neg) == [class |-> class, neg |-> neg, mant |-> 0, exp |-> 0]


\* (opt(sign), "infinity") and (opt(sign), "inf"): a is the cursor after the
\* optional sign.
signed_special(lit, s, i, a) ==
  MapOk(literal_no_case(lit, s, a),
        SpecialF64("inf", a > i /\ Peek(s, i) = Ord("-")))

\* float: alt((recognize_float, "nan", (opt(sign), "infinity"),
\* (opt(sign), "inf"))) and the conversion of the slice.
float(s, i) ==
  OrElse(MapWith(recognize_float(s, i), LAMBDA parts : FiniteF64(s, parts)),
    LAMBDA num :
      OrElse(MapOk(literal_no_case(NAN_LIT, s, Reset(i, num.p)),
                   SpecialF64("nan", FALSE)),
        LAMBDA nan :
          OrElse(signed_special(INFINITY_LIT, s, i,
                                opt_sign(s, Reset(i, nan.p))),
            LAMBDA infinity :
              signed_special(INF_LIT, s, i,
                             opt_sign(s, Reset(i, infinity.p))))))

(***************************************************************************)
(* Aggregates and the dispatcher: array, object, key_value, json_value.    *)
(***************************************************************************)
\* (ws, ',', ws) and (ws, ':', ws)
separator(c, s, i) ==
  Then(ws(s, i),
       LAMBDA before :
         Then(literal(<<c>>, s, before.p),
              LAMBDA lit : MapOk(ws(s, lit.p), c)))

\* (ws, ']') and (ws, '}')
closer(c, s, i) == Then(ws(s, i), LAMBDA before : literal(<<c>>, s, before.p))

\* An insert that keeps the value of a key already present.
insert_keep_first(m, key, value) ==
  [x \in DOMAIN m \cup {key} |-> IF x \in DOMAIN m THEN m[x] ELSE value]

\* HashMap::insert, which the HashMap accumulator of separated calls for each
\* pair: the value of a key already present is replaced.
insert(m, key, value) ==
  [x \in DOMAIN m \cup {key} |-> IF x = key THEN value ELSE m[x]]

RECURSIVE collect(_, _, _)
\* The HashMap accumulated from the pairs ps[n..], in their order, onto m.
collect(ps, n, m) ==
  IF n > Len(ps) THEN m
  ELSE collect(ps, n + 1, insert(m, ps[n][1], ps[n][2]))

\* The alternatives of json_value, in the order of the source.
ALTERNATIVES == <<"null", "boolean", "string", "number", "array", "object">>

RECURSIVE json_value(_, _), array(_, _), object(_, _), key_value(_, _)
RECURSIVE alt(_, _, _, _, _), separated_loop(_, _, _, _)

\* One alternative of json_value with its map / value.
alternative(name, s, i) ==
  CASE name = "null" -> MapOk(null(s, i), JNull)
    [] name = "boolean" -> MapWith(boolean(s, i), LAMBDA b : JBoolean(b))
    [] name = "string" -> MapWith(string(s, i), LAMBDA str : JString(str))
    [] name = "number" -> MapWith(float(s, i), LAMBDA f : JNumber(f))
    [] name = "array" -> MapWith(array(s, i), LAMBDA a : JArray(a))
    [] name = "object" -> MapWith(object(s, i), LAMBDA o : JObject(o))

\* alt: the alternatives order[n..] in turn, each from the checkpoint start;
\* the first result that is not a recoverable failure is returned, and when
\* every alternative fails the failure is recoverable.  cur is the cursor as
\* the last failed alternative left it.
alt(order, n, s, start, cur) ==
  IF n > Len(order) THEN Backtrack(cur)
  ELSE OrElse(alternative(order[n], s, Reset(start, cur)),
              LAMBDA failed : alt(order, n + 1, s, start, failed.p))

json_value(s, i) == alt(ALTERNATIVES, 1, s, i, i)

\* The element parser of separated: json_value in array, key_value in object.
element(kind, s, i) ==
  IF kind = "array" THEN json_value(s, i) ELSE key_value(s, i)

\* A list that accepts a separator with no element after it: the list ends
\* after that separator.
after_separator_trailing(el, sep, kind, s, i, acc) ==
  IF el.k = "Backtrack" THEN Ok(acc, sep.p)
  ELSE IF el.k # "Ok" THEN el
  ELSE separated_loop(kind, s, el.p, Append(acc, el.v))

\* The loop of separated after the separator sep, parsed from the checkpoint
\* i: el is what the element parser returned after it.  A recoverable failure
\* ends the list with the cursor back at the checkpoint, before the
\* separator.
after_separator(el, sep, kind, s, i, acc) ==
  IF el.k = "Backtrack" THEN Ok(acc, Reset(i, el.p))
  ELSE IF el.k # "Ok" THEN el
  ELSE separated_loop(kind, s, el.p, Append(acc, el.v))

\* The loop of separated after an element: sep is what the separator parser
\* returned from the checkpoint i.
after_element(sep, kind, s, i, acc) ==
  IF sep.k = "Backtrack" THEN Ok(acc, Reset(i, sep.p))
  ELSE IF sep.k # "Ok" THEN sep
  ELSE IF sep.p = i THEN assert_failed(i)
  ELSE after_separator(element(kind, s, sep.p), sep, kind, s, i, acc)

separated_loop(kind, s, i, acc) ==
  after_element(separator(Ord(","), s, i), kind, s, i, acc)

\* The first element of separated, parsed from the checkpoint i: no element
\* is an empty list.
separated_first(first, kind, s, i) ==
  IF first.k = "Backtrack" THEN Ok(<<>>, Reset(i, first.p))
  ELSE IF first.k # "Ok" THEN first
  ELSE separated_loop(kind, s, first.p, <<first.v>>)

\* separated(0.., element, (ws, ',', ws)): the elements parsed, in order.
separated(kind, s, i) == separated_first(element(kind, s, i), kind, s, i)

\* terminated(separated(..), (ws, ']')) and its object twin.
aggregate_body(kind, close, s, i) ==
  Then(separated(kind, s, i),
       LAMBDA body :
         Then(closer(close, s, body.p), LAMBDA end : Ok(body.v, end.p)))

\* preceded(('[', ws), cut_err(terminated(separated(..), (ws, ']'))))
array(s, i) ==
  Then(literal(<<Ord("[")>>, s, i),
       LAMBDA open :
         Then(ws(s, open.p),
              LAMBDA after :
                cut_err(aggregate_body("array", Ord("]"), s, after.p))))

\* preceded(('{', ws), cut_err(terminated(separated(..), (ws, '}'))))
object(s, i) ==
  Then(literal(<<Ord("{")>>, s, i),
       LAMBDA open :
         Then(ws(s, open.p),
              LAMBDA after :
                MapWith(cut_err(aggregate_body("object", Ord("}"), s, after.p)),
                        LAMBDA pairs : collect(pairs, 1, <<>>))))

\* key_value with the value under the cut_err of the separator.
key_value_cut(s, i) ==
  Then(string(s, i),
       LAMBDA key :
         Then(cut_err(separator(Ord(":"), s, key.p)),
              LAMBDA sep :
                Then(cut_err(json_value(s, sep.p)),
                     LAMBDA value : Ok(<<key.v, value.v>>, value.p))))

\* separated_pair(string, cut_err((ws, ':', ws)), json_value)
key_value(s, i) ==
  Then(string(s, i),
       LAMBDA key :
         Then(cut_err(separator(Ord(":"), s, key.p)),
              LAMBDA sep :
                Then(json_value(s, sep.p),
                     LAMBDA value : Ok(<<key.v, value.v>>, value.p))))

\* delimited(ws, json_value, ws)
json(s, i) ==
  Then(ws(s, i),
       LAMBDA before :
         Then(json_value(s, before.p),
              LAMBDA value : MapOk(ws(s, value.p), value.v)))

(***************************************************************************)
(* The input texts.  Each family is a bounded set of shapes; the text of a *)
(* shape is its rendering.                                                 *)
(***************************************************************************)
RECURSIVE Flatten(_)
\* The concatenation of a sequence of texts.
Flatten(ts) == IF ts = <<>> THEN <<>> ELSE Head(ts) \o Flatten(Tail(ts))

\* The sequences of at most max members of set.
Lists(set, max) == UNION {[1..m -> set] : m \in 0..max}

\* Token texts: every sequence of at most MaxTokens tokens, well-formed or
\* not.
MaxTokens == 3
TOKENS ==
  { Str(<<"[">>), Str(<<"{">>), Str(<<":">>), Str(<<" ">>),
    Str(<<"\"", "a", "\"">>), Str(<<"\"">>), Str(<<"1">>) }

\* Padded texts: the value 1 between two runs of whitespace characters.
MaxPad == 1

\* Aggregates: an array of at most MaxItems elements or an object of at most
\* MaxItems pairs, compact or with a space around every token, either
\* well-formed or with one defect: a comma before the closer
\* ("trailing_comma"), or the value of item at replaced by the text bad
\* ("bad_value").  The values are named; TextOf is the text of a value and
\* Expected the JsonValue it denotes.
MaxItems == 3
VALUES == {"one", "c"}
ELEMENTS == {"one", "c", "empty"}
PAIRS ==
  {[key |-> "a", val |-> v] : v \in VALUES} \cup {[key |-> "b", val |-> "one"]}

TextOf(name) ==
  CASE name = "one" -> Str(<<"1">>)
    [] name = "c" -> Str(<<"\"", "c", "\"">>)
    [] name = "empty" -> Str(<<"[", "]">>)

Expected(name) ==
  CASE name = "one" -> JNumber(Finite(FALSE, <<1, 0>>))
    [] name = "c" -> JString(Str(<<"c">>))
    [] name = "empty" -> JArray(<<>>)

\* The text of a key, without its quotes.
KeyText(k) == <<Ord(k)>>

\* A text no alternative of json_value matches, no text at all, and a text
\* that fails fatally (a string without its closing quote).
BAD_X == Str(<<"x">>)
BAD_MISSING == <<>>
BAD_QUOTE == Str(<<"\"">>)
BADS == {BAD_X, BAD_MISSING, BAD_QUOTE}

ItemLists(kind) ==
  Lists(IF kind = "array" THEN ELEMENTS ELSE PAIRS, MaxItems)

Sp(spaced) == IF spaced THEN Str(<<" ">>) ELSE <<>>

\* The name of the value of an item.
ValueName(sh, item) == IF sh.kind = "array" THEN item ELSE item.val

\* The text of the value of item n.
ValueText(sh, n) ==
  IF sh.defect = "bad_value" /\ sh.at = n THEN sh.bad
  ELSE TextOf(ValueName(sh, sh.items[n]))

\* The text of item n: an element, or a "key" : value pair.
ItemText(sh, n) ==
  IF sh.kind = "array" THEN ValueText(sh, n)
  ELSE <<QUOTE>> \o KeyText(sh.items[n].key) \o <<QUOTE>> \o Sp(sh.spaced)
       \o <<Ord(":")>> \o Sp(sh.spaced) \o ValueText(sh, n)

RECURSIVE ItemsText(_, _)
\* The text of the items 1..n with their separators.
ItemsText(sh, n) ==
  IF n = 0 THEN <<>>
  ELSE IF n = 1 THEN ItemText(sh, 1)
  ELSE ItemsText(sh, n - 1) \o Sp(sh.spaced) \o <<Ord(",")>>
       \o Sp(sh.spaced) \o ItemText(sh, n)

Opener(sh) == IF sh.kind = "array" THEN <<Ord("[")>> ELSE <<Ord("{")>>
Closer(sh) == IF sh.kind = "array" THEN <<Ord("]")>> ELSE <<Ord("}")>>

AggregateText(sh) ==
  Opener(sh) \o Sp(sh.spaced) \o ItemsText(sh, Len(sh.items))
  \o (IF sh.defect = "trailing_comma"
      THEN Sp(sh.spaced) \o <<Ord(",")>> ELSE <<>>)
  \o Sp(sh.spaced) \o Closer(sh)

\* The defects an item list can be given.
Defects(items) ==
  {[defect |-> d, at |-> 0, bad |-> <<>>] : d \in {"none", "trailing_comma"}}
  \cup {[defect |-> "bad_value", at |-> n, bad |-> b] :
          n \in 1..Len(items), b \in BADS}

\* A single "key" : value pair, the text key_value parses; bad is the text
\* put in place of the value, or NO_BAD.
NO_BAD == Str(<<"-">>)
PairText(sh) ==
  <<QUOTE>> \o KeyText(sh.pair.key) \o <<QUOTE>> \o Sp(sh.spaced)
  \o <<Ord(":")>> \o Sp(sh.spaced)
  \o (IF sh.bad = NO_BAD THEN TextOf(sh.pair.val) ELSE sh.bad)

\* Number texts: every sequence of at most MaxNumberTokens of the characters
\* and words a number lexeme is made of.
MaxNumberTokens == 3
NUMBER_TOKENS ==
  { Str(<<"+">>), Str(<<"-">>), Str(<<".">>), Str(<<"0">>), Str(<<"1">>),
    Str(<<"e">>), Str(<<"n", "a", "n">>), Str(<<"i", "n", "f">>) }

\* Escapes of four characters: every quad over a few hexadecimal digits, the
\* two signs and a letter that is no digit, bare (as u16_hex meets it) or as
\* the only character of a string literal.
QUAD_CHARS ==
  {Ord("0"), Ord("A"), Ord("f"), Ord("+"), Ord("-"), Ord("g")}
QuadLen == 4
Quads == [1..QuadLen -> QUAD_CHARS]

\* Escapes of code units: the units within Window of the ends of the ranges
\* the decoder tells apart (the 16-bit range, the high and the low
\* surrogates), one unit or two, bare (as unicode_escape meets them, after
\* the first "\\u") or as the only characters of a string literal.
Window == 1
HIGH_FIRST == \hD800
LOW_FIRST == \hDC00
SURROGATE_END == \hE000
UNIT_END == \h10000
UNIT_RANGE_ENDS == {0, HIGH_FIRST, LOW_FIRST, SURROGATE_END, UNIT_END}
UNITS ==
  UNION {{b - n : n \in 1..Window} \cup {b + n : n \in 0..(Window - 1)} :
           b \in UNIT_RANGE_ENDS} \cap (0..(UNIT_END - 1))
NO_UNIT == UNIT_END

\* An uppercase hexadecimal digit, and the four digits of a code unit.
HexChar(d) == IF d < 10 THEN Ord("0") + d ELSE Ord("A") + (d - 10)
Hex4(u) ==
  <<HexChar(u \div 4096), HexChar((u \div 256) % 16),
    HexChar((u \div 16) % 16), HexChar(u % 16)>>

\* The text after the first "\\u": one unit, or two with "\\u" between them.
UnitsText(first, second) ==
  Hex4(first) \o (IF second = NO_UNIT THEN <<>> ELSE U_ESCAPE \o Hex4(second))

\* An escape, bare or as the only content of a string literal.
EscapeText(quoted, body) ==
  IF quoted THEN <<QUOTE>> \o U_ESCAPE \o body \o <<QUOTE>> ELSE body

\* Dispatcher texts: every sequence of at most MaxAltTokens tokens: a word
\* of the null alternative and one of the number alternative that start with
\* the same letter, a quote, a digit, a sign, and the two empty aggregates.
MaxAltTokens == 2
ALT_TOKENS ==
  { NULL_LIT, NAN_LIT, Str(<<"\"">>), Str(<<"1">>), Str(<<"-">>),
    Str(<<"[", "]">>), Str(<<"{", "}">>) }

\* The fixture of main and the value its assertion expects.
MainInput ==
  Str(<< "\n",
       " ", " ", "{", "\n",
       " ", " ", " ", " ", "\"", "n", "u", "l", "l", "\"", " ", ":", " ", "n", "u", "l", "l", ",", "\n",
       " ", " ", " ", " ", "\"", "t", "r", "u", "e", "\"", " ", " ", ":", "t", "r", "u", "e", " ", ",", "\n",
       " ", " ", " ", " ", "\"", "f", "a", "l", "s", "e", "\"", ":", " ", " ", "f", "a", "l", "s", "e", " ", " ", ",", "\n",
       " ", " ", " ", " ", "\"", "n", "u", "m", "b", "e", "r", "\"", " ", ":", " ", "1", "2", "3", "e", "4", " ", ",", "\n",
       " ", " ", " ", " ", "\"", "s", "t", "r", "i", "n", "g", "\"", " ", ":", " ", "\"", " ", "a", "b", "c", " ", "1", "2", "3", " ", "\"", " ", ",", "\n",
       " ", " ", " ", " ", "\"", "a", "r", "r", "a", "y", "\"", " ", ":", " ", "[", " ", "f", "a", "l", "s", "e", " ", ",", " ", "1", " ", ",", " ", "\"", "t", "w", "o", "\"", " ", "]", " ", ",", "\n",
       " ", " ", " ", " ", "\"", "o", "b", "j", "e", "c", "t", "\"", " ", ":", " ", "{", " ", "\"", "a", "\"", " ", ":", " ", "1", ".", "0", " ", ",", " ", "\"", "b", "\"", " ", ":", " ", "\"", "c", "\"", " ", "}", " ", ",", "\n",
       " ", " ", " ", " ", "\"", "e", "m", "p", "t", "y", "_", "a", "r", "r", "a", "y", "\"", " ", ":", " ", "[", " ", " ", "]", " ", ",", "\n",
       " ", " ", " ", " ", "\"", "e", "m", "p", "t", "y", "_", "o", "b", "j", "e", "c", "t", "\"", " ", ":", " ", "{", " ", " ", " ", "}", "\n",
       " ", " ", "}", "\n",
       " ", " " >>)

Key(t) == Str(t)
MainExpected ==
  JObject(collect(
    << <<Key(<<"n", "u", "l", "l">>), JNull>>,
       <<Key(<<"t", "r", "u", "e">>), JBoolean(TRUE)>>,
       <<Key(<<"f", "a", "l", "s", "e">>), JBoolean(FALSE)>>,
       <<Key(<<"n", "u", "m", "b", "e", "r">>), JNumber(Finite(FALSE, <<123, 4>>))>>,
       <<Key(<<"s", "t", "r", "i", "n", "g">>),
         JString(Str(<<" ", "a", "b", "c", " ", "1", "2", "3", " ">>))>>,
       <<Key(<<"a", "r", "r", "a", "y">>),
         JArray(<<JBoolean(FALSE), JNumber(Finite(FALSE, <<1, 0>>)),
                  JString(Str(<<"t", "w", "o">>))>>)>>,
       <<Key(<<"o", "b", "j", "e", "c", "t">>),
         JObject(collect(
           << <<Key(<<"a">>), JNumber(Finite(FALSE, <<1, 0>>))>>,
              <<Key(<<"b">>), JString(Str(<<"c">>))>> >>, 1, <<>>))>>,
       <<Key(<<"e", "m", "p", "t", "y", "_", "a", "r", "r", "a", "y">>),
         JArray(<<>>)>>,
       <<Key(<<"e", "m", "p", "t", "y", "_", "o", "b", "j", "e", "c", "t">>),
         JObject(<<>>)>> >>, 1, <<>>))

(***************************************************************************)
(* The state machine: a text is handed to one of the productions.          *)
(***************************************************************************)
NONE == [k |-> "None", p |-> 0, v |-> <<>>]

\* Before the call: either build profile, nothing returned yet.
Idle ==
  /\ profile \in {"dev", "release"}
  /\ op = "idle"
  /\ out = NONE

InitTokens ==
  \E ts \in Lists(TOKENS, MaxTokens) :
    /\ shape = [kind |-> "tokens", toks |-> ts]
    /\ input = Flatten(ts)

InitPadded ==
  \E lead \in Lists(WS, MaxPad), trail \in Lists(WS, MaxPad) :
    /\ shape = [kind |-> "padded", lead |-> lead, trail |-> trail]
    /\ input = lead \o TextOf("one") \o trail

InitMain ==
  /\ shape = [kind |-> "main"]
  /\ input = MainInput

InitAggregate ==
  \E kind \in {"array", "object"}, sp \in BOOLEAN :
    \E its \in ItemLists(kind) :
      \E d \in Defects(its) :
        /\ shape = [kind |-> kind, items |-> its, spaced |-> sp,
                    defect |-> d.defect, at |-> d.at, bad |-> d.bad]
        /\ input = AggregateText(shape)

InitPair ==
  \E pr \in PAIRS, sp \in BOOLEAN, b \in BADS \cup {NO_BAD} :
    /\ shape = [kind |-> "pair", pair |-> pr, spaced |-> sp, bad |-> b]
    /\ input = PairText(shape)

InitNumber ==
  \E ts \in Lists(NUMBER_TOKENS, MaxNumberTokens) :
    /\ shape = [kind |-> "number", toks |-> ts]
    /\ input = Flatten(ts)

InitQuad ==
  \E q \in Quads, quoted \in BOOLEAN :
    /\ shape = [kind |-> "quad", quad |-> q, quoted |-> quoted]
    /\ input = EscapeText(quoted, q)

InitUnits ==
  \E first \in UNITS, second \in UNITS \cup {NO_UNIT}, quoted \in BOOLEAN :
    /\ shape = [kind |-> "units", first |-> first, second |-> second,
                quoted |-> quoted]
    /\ input = EscapeText(quoted, UnitsText(first, second))

InitAlt ==
  \E ts \in Lists(ALT_TOKENS, MaxAltTokens) :
    /\ shape = [kind |-> "alt", toks |-> ts]
    /\ input = Flatten(ts)

\* Documents and aggregates.
Init ==
  /\ InitTokens \/ InitPadded \/ InitMain \/ InitAggregate \/ InitPair
  /\ Idle

\* The production named name, called on the whole input.
Call(name, result) ==
  /\ op = "idle"
  /\ op' = name
  /\ out' = result
  /\ UNCHANGED <<shape, input, profile>>

Call_json == Call("json", json(input, 0))
Call_json_value == Call("json_value", json_value(input, 0))
Call_null == Call("null", null(input, 0))
Call_boolean == Call("boolean", boolean(input, 0))
Call_string == Call("string", string(input, 0))
Call_character == Call("character", character(input, 0))
Call_unicode_escape == Call("unicode_escape", unicode_escape(input, 0))
Call_u16_hex == Call("u16_hex", u16_hex(input, 0))
Call_float == Call("float", float(input, 0))
Call_array == Call("array", array(input, 0))
Call_object == Call("object", object(input, 0))
Call_key_value == Call("key_value", key_value(input, 0))
Call_ws == Call("ws", ws(input, 0))

Next ==
  \/ Call_json
  \/ Call_json_value
  \/ Call_null
  \/ Call_boolean
  \/ Call_string
  \/ Call_character
  \/ Call_unicode_escape
  \/ Call_u16_hex
  \/ Call_float
  \/ Call_array
  \/ Call_object
  \/ Call_key_value
  \/ Call_ws

Spec == Init /\ [][Next]_vars

\* Number lexemes.
Init_Number ==
  /\ InitNumber
  /\ Idle

SpecNumber == Init_Number /\ [][Next]_vars

\* Unicode escapes.
Init_Escape ==
  /\ InitQuad \/ InitUnits
  /\ Idle

SpecEscape == Init_Escape /\ [][Next]_vars

\* The dispatcher.
Init_Alt ==
  /\ InitAlt
  /\ Idle

SpecAlt == Init_Alt /\ [][Next]_vars

(***************************************************************************)
(* Properties.  The whitespace, the number form and the arithmetic of the  *)
(* properties are spelled out here and do not use the parser's own.        *)
(***************************************************************************)
IsSpace(c) == c \in {32, 9, 13, 10}

\* The first cursor from i that is not before a whitespace character.
SkipSpaces(s, i) ==
  CHOOSE j \in i..Len(s) :
    /\ \A n \in i..(j - 1) : IsSpace(s[n + 1])
    /\ j = Len(s) \/ ~IsSpace(s[j + 1])

\* The variant an opening character commits json to.
VariantOf(c) ==
  CASE c = Ord("\"") -> "String"
    [] c = Ord("[") -> "Array"
    [] c = Ord("{") -> "Object"
    [] OTHER -> "None"

\* The result r is a value of the variant the opener c commits to, or a
\* fatal error.
Committed(c, r) ==
  VariantOf(c) # "None" =>
    /\ r.k \in {"Ok", "Cut"}
    /\ r.k = "Ok" => r.v.t = VariantOf(c)

\* The production consumed the whole input and returned v.
Returned(v) == out.k = "Ok" /\ out.p = Len(input) /\ out.v = v

\* C1: on an input whose first non-whitespace character is '"', '[' or '{',
\* json succeeds with a String, an Array or an Object respectively or fails
\* with a fatal error: never a recoverable error, never another variant.
C1_OpenerCommits ==
  op = "json" => Committed(Peek(input, SkipSpaces(input, 0)), out)

\* An object whose first key is an unterminated string, after a space, was
\* handed to json and failed fatally.
C1_Witness ==
  /\ op = "json"
  /\ input = Str(<<" ", "{", "\"">>)
  /\ out.k = "Cut"

\* What json returns, given what json_value returns after the leading
\* whitespace.
JsonOf(value) ==
  /\ out.k = "Ok" =>
       /\ value.k = "Ok"
       /\ out.v = value.v
       /\ out.p = SkipSpaces(input, value.p)
       /\ out.p <= Len(input)
       /\ ~IsSpace(Peek(input, out.p))
  /\ value.k = "Ok" => out.k = "Ok"

\* C2: json skips the leading whitespace, parses one value, skips the
\* trailing whitespace and returns the value with the remainder: the
\* remainder is a suffix that does not start with whitespace, whatever text
\* follows the value stays in it and rejects nothing, and the fixture of main
\* parses to the expected value with an empty remainder.
C2_JsonRemainder ==
  op = "json" =>
    /\ JsonOf(json_value(input, SkipSpaces(input, 0)))
    /\ shape.kind = "main" => Returned(MainExpected)
    /\ shape.kind = "padded" => Returned(Expected("one"))

\* The fixture of main was parsed to the end of the text.
C2_Witness ==
  /\ op = "json"
  /\ shape.kind = "main"
  /\ out.k = "Ok"
  /\ out.p = Len(input)

IsDigit(c) == c \in 48..57

\* The first cursor from i that is not before a digit.
SkipDigits(s, i) ==
  CHOOSE j \in i..Len(s) :
    /\ \A n \in i..(j - 1) : IsDigit(s[n + 1])
    /\ j = Len(s) \/ ~IsDigit(s[j + 1])

\* The JSON number grammar, part by part: each operator takes the cursor
\* after the part before it and returns the cursor after its own part, -1
\* when the text is not of the form.
JsonSign(s) == IF Peek(s, 0) = 45 THEN 1 ELSE 0
JsonInt(s, i) ==
  IF Peek(s, i) = 48 THEN i + 1
  ELSE IF IsDigit(Peek(s, i)) THEN SkipDigits(s, i)
  ELSE -1
JsonDigits(s, i) == IF IsDigit(Peek(s, i)) THEN SkipDigits(s, i) ELSE -1
JsonFrac(s, i) ==
  IF i = -1 THEN -1
  ELSE IF Peek(s, i) = 46 THEN JsonDigits(s, i + 1)
  ELSE i
JsonExp(s, i) ==
  IF i = -1 THEN -1
  ELSE IF Peek(s, i) \notin {69, 101} THEN i
  ELSE IF Peek(s, i + 1) \in {43, 45} THEN JsonDigits(s, i + 2)
  ELSE JsonDigits(s, i + 1)

\* The text is a JSON number: '-'? int frac? exp?, and nothing else.
IsJsonNumber(s) == JsonExp(s, JsonFrac(s, JsonInt(s, JsonSign(s)))) = Len(s)

\* C3, as stated: the number alternative turns a text into a Number only
\* when the slice it consumed is a JSON number, and fails recoverably on a
\* text no prefix of which is a JSON number.
C3_NumberIsJsonNumber ==
  (shape.kind = "number" /\ op \in {"float", "json_value"}) =>
    /\ out.k = "Ok" => IsJsonNumber(SubSeq(input, 1, out.p))
    /\ (\A n \in 1..Len(input) : ~IsJsonNumber(SubSeq(input, 1, n))) =>
         out.k = "Backtrack"

IsHex(c) == c \in (48..57) \cup (65..70) \cup (97..102)

\* C4, as stated: u16_hex fails on every four characters one of which is no
\* hexadecimal digit, and the string literal whose escape they are is
\* rejected.
C4_FourHexDigits ==
  (/\ shape.kind = "quad"
   /\ \E n \in 1..QuadLen : ~IsHex(shape.quad[n])) =>
    /\ (~shape.quoted /\ op = "u16_hex") => out.k = "Backtrack"
    /\ (shape.quoted /\ op = "string") => out.k # "Ok"

\* The units of the shape are a high surrogate and a low surrogate.
ValidPair ==
  /\ shape.kind = "units"
  /\ shape.first \in HIGH_FIRST..(LOW_FIRST - 1)
  /\ shape.second \in LOW_FIRST..(SURROGATE_END - 1)

\* The scalar of a pair, in unbounded integers.
Scalar(h, l) == ((h - 55296) * 1024) + (l - 56320) + 65536

\* C5: for a high unit followed by "\\u" and a low unit, unicode_escape
\* yields the scalar ((h - 0xD800) << 10) + (l - 0xDC00) + 0x10000, which
\* lies in [0x10000, 0x10FFFF], in either build profile (no subtraction
\* underflows, the conversion to a character does not fail); a string made
\* of the escape holds that one character.
C5_PairScalar ==
  ValidPair =>
    /\ Scalar(shape.first, shape.second) \in 65536..1114111
    /\ (~shape.quoted /\ op = "unicode_escape") =>
         Returned(Scalar(shape.first, shape.second))
    /\ (shape.quoted /\ op = "string") =>
         Returned(<<Scalar(shape.first, shape.second)>>)

\* The last high surrogate with the last low surrogate was decoded in the
\* profile with overflow checks.
C5_Witness ==
  /\ ValidPair
  /\ shape.first = LOW_FIRST - 1
  /\ shape.second = SURROGATE_END - 1
  /\ ~shape.quoted
  /\ profile = "dev"
  /\ op = "unicode_escape"
  /\ out.k = "Ok"
  /\ out.v = 1114111

IsSurrogate(u) == u \in 55296..57343
IsHigh(u) == u \in 55296..56319
IsLow(u) == u \in 56320..57343

\* The string of the shape holds a lone surrogate: its first unit is a
\* surrogate that does not start a pair (a low one, a high one with no unit
\* after it, or with a unit after it that is not a low one), or its first
\* unit is a character of its own and its second, last unit is a surrogate.
LoneSurrogate ==
  /\ shape.kind = "units"
  /\ shape.quoted
  /\ \/ IsLow(shape.first)
     \/ IsHigh(shape.first) /\ ~IsLow(shape.second)
     \/ ~IsSurrogate(shape.first) /\ IsSurrogate(shape.second)

\* C6: a string with a lone surrogate escape fails fatally, as a string, as
\* a value and as a document, in either build profile: no String, no panic.
C6_LoneSurrogateFatal ==
  (LoneSurrogate /\ op \in {"string", "json_value", "json"}) => out.k = "Cut"

\* A high surrogate followed by the escape of a character that is no
\* surrogate was rejected in the profile with overflow checks.
C6_Witness ==
  /\ LoneSurrogate
  /\ shape.first = HIGH_FIRST
  /\ shape.second = 0
  /\ profile = "dev"
  /\ op = "string"
  /\ out.k = "Cut"

IsAggregate == shape.kind \in {"array", "object"}

\* C7: an array or object whose last separator is followed, after optional
\* whitespace, by the closer fails fatally and returns no elements.
C7_TrailingComma ==
  (/\ IsAggregate
   /\ shape.defect = "trailing_comma"
   /\ op \in {shape.kind, "json_value", "json"}) => out.k = "Cut"

\* An object of two pairs with a comma before its closer was rejected.
C7_Witness ==
  /\ IsAggregate
  /\ shape.kind = "object"
  /\ shape.defect = "trailing_comma"
  /\ Len(shape.items) = 2
  /\ op = "object"
  /\ out.k = "Cut"

\* Whether pair n is the last pair of its key in the text.
LastOfKey(items, n) ==
  \A m \in (n + 1)..Len(items) : items[m].key # items[n].key

\* C8: the mapping of an object holds one entry for every key of the text,
\* and its value is the value of the last pair with that key.
C8_LastKeyWins ==
  (/\ IsAggregate
   /\ shape.kind = "object"
   /\ shape.defect = "none"
   /\ op = "object") =>
    /\ out.k = "Ok"
    /\ out.p = Len(input)
    /\ DOMAIN out.v = {KeyText(shape.items[n].key) : n \in 1..Len(shape.items)}
    /\ \A n \in 1..Len(shape.items) :
         LastOfKey(shape.items, n) =>
           out.v[KeyText(shape.items[n].key)] = Expected(shape.items[n].val)

\* An object whose first and third pair share a key, with different values,
\* and whose second pair has the other key, was parsed.
C8_Witness ==
  /\ IsAggregate
  /\ shape.kind = "object"
  /\ shape.defect = "none"
  /\ Len(shape.items) = 3
  /\ shape.items[1].key = shape.items[3].key
  /\ shape.items[1].key # shape.items[2].key
  /\ shape.items[1].val # shape.items[3].val
  /\ op = "object"
  /\ out.k = "Ok"

\* The cursor of the ',' before item n of an aggregate shape (n > 1).
CommaPos(sh, n) ==
  Len(Opener(sh) \o Sp(sh.spaced) \o ItemsText(sh, n - 1) \o Sp(sh.spaced))

\* The cursor of the opening quote of the key of pair n of an object shape.
KeyPos(sh, n) ==
  IF n = 1 THEN Len(Opener(sh) \o Sp(sh.spaced))
  ELSE CommaPos(sh, n) + 1 + Len(Sp(sh.spaced))

\* The cursor of the ':' of pair n of an object shape.
ColonPos(sh, n) ==
  KeyPos(sh, n) + Len(KeyText(sh.items[n].key)) + 2 + Len(Sp(sh.spaced))

\* The aggregate shapes in which a value fails right after a separator the
\* parser has consumed: the value of any pair follows its ':', an element
\* other than the first follows a ','.
AfterSeparator ==
  /\ IsAggregate
  /\ shape.defect = "bad_value"
  /\ shape.kind = "object" \/ shape.at > 1

\* The cursor of that separator.
SepPos ==
  IF shape.kind = "object" THEN ColonPos(shape, shape.at)
  ELSE CommaPos(shape, shape.at)

\* The checkpoint separated returns to: the ',' before the item, or the key
\* of the first pair.
CheckpointPos ==
  IF shape.at = 1 THEN KeyPos(shape, 1) ELSE CommaPos(shape, shape.at)

Recoverable(bad) == bad \in {BAD_X, BAD_MISSING}

\* C9, as stated: the failure of the value after a consumed ':' or ',' is
\* reported as fatal by the production that consumed the separator
\* (key_value, or the body of the aggregate with the cursor past the
\* separator).
C9_SeparatorCommits ==
  /\ (shape.kind = "pair" /\ shape.bad # NO_BAD /\ op = "key_value") =>
       out.k = "Cut"
  /\ (AfterSeparator /\ op = shape.kind) =>
       (out.k = "Cut" /\ out.p > SepPos)

\* C9, amended: key_value returns the failure of its value as it is, a
\* recoverable one as recoverable; after a recoverable failure of the item
\* that follows a consumed separator the list ends with the cursor back at
\* the checkpoint before that separator (before the key, for the first
\* pair), and the aggregate, committed since its opener, fails fatally at
\* its closer check there.  A fatal failure of the value is passed on.
C9_SeparatorBacktracks ==
  /\ (shape.kind = "pair" /\ op = "key_value") =>
       out.k = (IF shape.bad = NO_BAD THEN "Ok"
                ELSE IF Recoverable(shape.bad) THEN "Backtrack"
                ELSE "Cut")
  /\ (AfterSeparator /\ op \in {shape.kind, "json_value", "json"}) =>
       /\ out.k = "Cut"
       /\ Recoverable(shape.bad) =>
            (out.p = CheckpointPos /\ out.p <= SepPos)

\* An array whose third element matches no value failed at the second comma.
C9_Witness ==
  /\ AfterSeparator
  /\ shape.kind = "array"
  /\ shape.at = 3
  /\ shape.bad = BAD_X
  /\ op = "array"
  /\ out.k = "Cut"
  /\ Peek(input, out.p) = Ord(",")

\* The orders of the alternatives of json_value: every permutation.
ORDERS ==
  {[n \in 1..Len(ALTERNATIVES) |-> ALTERNATIVES[p[n]]] :
     p \in {q \in [1..Len(ALTERNATIVES) -> 1..Len(ALTERNATIVES)] :
              \A a, b \in 1..Len(ALTERNATIVES) : a # b => q[a] # q[b]}}

\* The alternatives that return anything but a recoverable failure from the
\* cursor the dispatcher was entered at.
Matching(s) ==
  {n \in 1..Len(ALTERNATIVES) :
     alternative(ALTERNATIVES[n], s, 0).k # "Backtrack"}

\* Two results are the same result: the same value and remainder, or the
\* same error class.
SameResult(r, q) ==
  /\ r.k = q.k
  /\ r.k = "Ok" => (r.p = q.p /\ r.v.t = q.v.t /\ r.v = q.v)

\* C10: at most one alternative of json_value returns anything but a
\* recoverable failure, the dispatcher returns the same result (value and
\* remainder, or error class) under every order of its alternatives, and
\* when all six fail it fails recoverably.
C10_OrderIrrelevant ==
  (shape.kind = "alt" /\ op = "json_value") =>
    /\ Cardinality(Matching(input)) <= 1
    /\ \A order \in ORDERS : SameResult(alt(order, 1, input, 0, 0), out)
    /\ Matching(input) = {} => out.k = "Backtrack"

\* A sign before an empty array, which the number alternative fails on after
\* the sign and the array alternative fails on at once, matched nothing.
C10_Witness ==
  /\ shape.kind = "alt"
  /\ shape.toks = <<Str(<<"-">>), Str(<<"[", "]">>)>>
  /\ op = "json_value"
  /\ out.k = "Backtrack"

====
